---- MODULE Spec2Model ----
(***************************************************************************)
(* A model of the commitment / Merkle engine of the SSI repository:        *)
(*   src/merkle_tree.py        MerkleTree                                  *)
(*   src/zk_merkle_identity.py ZKMerkleIdentity                            *)
(*   src/identity_registry.py  IdentityRegistry, RegistryVerifier          *)
(*                                                                         *)
(* Byte strings are sequences of bytes (0..255).  SHA-256 is modelled as   *)
(* a collision-free function: the digest of a byte string is that string   *)
(* between the two marker bytes 254 and 255, which no other value of the   *)
(* model uses, so that sha256(x) = sha256(y) only if x = y and a           *)
(* concatenation of digests splits in one way only.  A hex string is the   *)
(* sequence of its characters: 0..15 are '0'..'9', 'a'..'f', 16..21 are    *)
(* 'A'..'F', and a larger number is a character that is no hex digit.      *)
(* Python's None and a raised exception are records.                       *)
(***************************************************************************)
EXTENDS Integers, Sequences, FiniteSets, TLC

VARIABLES
    mt,              \* SpecTree: the MerkleTree object under test, or None
    salt_cache,      \* ZKMerkleIdentity.salt_cache: insertion-ordered dict
    merkle_tree,     \* ZKMerkleIdentity.merkle_tree: a MerkleTree or None
    identity_roots,  \* IdentityRegistry.identity_roots: list of outer leaves
    registry_tree,   \* IdentityRegistry.registry_tree: a MerkleTree or None
    registry_salts,  \* IdentityRegistry.registry_salts: ordered dict
    registry_data,   \* IdentityRegistry.registry_data: ordered dict
    files,           \* the storage directory: file name -> content
    entropy,         \* number of salts drawn so far from secrets.token_bytes
    clock,           \* datetime.now(), as a count of ticks
    registered,      \* history: the items register_identity stored, in call order
    calls,           \* each caller's register_identity call in progress, if any
    out              \* the last call: its operation, arguments and outcome

vars == <<mt, salt_cache, merkle_tree, identity_roots, registry_tree,
          registry_salts, registry_data, files, entropy, clock, registered,
          calls, out>>

---------------------------------------------------------------------------
(* Python values *)

None == [none |-> TRUE]

Return(v) == [ok |-> TRUE, val |-> v]

Raise(e) == [ok |-> FALSE, exc |-> e]

Range(s) == {s[i] : i \in 1..Len(s)}

---------------------------------------------------------------------------
(* bytes, hashlib.sha256, bytes.hex, bytes.fromhex *)

sha256(data) == <<254>> \o data \o <<255>>

hex(b) ==
    [i \in 1..(2 * Len(b)) |->
        IF i % 2 = 1 THEN b[(i + 1) \div 2] \div 16 ELSE b[i \div 2] % 16]

\* bytes.fromhex accepts the digits in either case
IsHex(h) == Len(h) % 2 = 0 /\ \A i \in 1..Len(h) : h[i] \in 0..21

\* the value of a hex character: 'A'..'F' count as 'a'..'f'
digit(c) == IF c <= 15 THEN c ELSE c - 6

\* bytes.fromhex of a string for which IsHex holds (it raises ValueError otherwise)
fromhex(h) == [i \in 1..(Len(h) \div 2) |-> 16 * digit(h[2 * i - 1]) + digit(h[2 * i])]

\* str.upper of a hex string
upper(h) == [i \in 1..Len(h) |-> IF h[i] \in 10..15 THEN h[i] + 6 ELSE h[i]]

---------------------------------------------------------------------------
(* src/merkle_tree.py *)

_hash_pair(left, right) == sha256(left \o right)

\* parent_level that carries the last node of an odd level up as it is
parent_level_promotes_odd(nodes) ==
    [j \in 1..((Len(nodes) + 1) \div 2) |->
        IF 2 * j > Len(nodes)
        THEN nodes[2 * j - 1]
        ELSE _hash_pair(nodes[2 * j - 1], nodes[2 * j])]

\* parent_level that hashes every left node with itself
parent_level_left_only(nodes) ==
    [j \in 1..((Len(nodes) + 1) \div 2) |->
        _hash_pair(nodes[2 * j - 1], nodes[2 * j - 1])]

\* one pass of the for loop of _build_tree: the parent level of `nodes`
parent_level(nodes) ==
    [j \in 1..((Len(nodes) + 1) \div 2) |->
        IF 2 * j > Len(nodes)
        THEN _hash_pair(nodes[2 * j - 1], nodes[2 * j - 1])
        ELSE _hash_pair(nodes[2 * j - 1], nodes[2 * j])]

RECURSIVE _build_tree(_)
_build_tree(nodes) ==
    IF Len(nodes) > 1
    THEN <<nodes>> \o _build_tree(parent_level(nodes))
    ELSE <<nodes>>

\* MerkleTree.__init__: the object, or ValueError on no leaves
MerkleTree(leaves) ==
    IF leaves = <<>>
    THEN Raise("ValueError")
    ELSE Return([leaves |-> leaves, tree |-> _build_tree(leaves)])

get_root(t) == t.tree[Len(t.tree)][1]

\* index that returns the last occurrence
index_last(leaves, leaf) ==
    IF \E i \in 1..Len(leaves) : leaves[i] = leaf
    THEN CHOOSE i \in 1..Len(leaves) :
            leaves[i] = leaf /\ \A j \in (i + 1)..Len(leaves) : leaves[j] # leaf
    ELSE 0

\* list.index: the first (1-based) index of leaf, 0 when absent
index(leaves, leaf) ==
    IF \E i \in 1..Len(leaves) : leaves[i] = leaf
    THEN CHOOSE i \in 1..Len(leaves) :
            leaves[i] = leaf /\ \A j \in 1..(i - 1) : leaves[j] # leaf
    ELSE 0

\* proof_step with the two sides exchanged
proof_step_swapped(current_level, node_index) ==
    LET is_right      == node_index % 2 = 1
        sibling_index == IF is_right THEN node_index - 1 ELSE node_index + 1
    IN  [data     |-> IF sibling_index >= Len(current_level)
                      THEN current_level[node_index + 1]
                      ELSE current_level[sibling_index + 1],
         position |-> IF is_right THEN "right" ELSE "left"]

\* one pass of the for loop of get_proof; node_index is 0-based as in the code
proof_step(current_level, node_index) ==
    LET is_right      == node_index % 2 = 1
        sibling_index == IF is_right THEN node_index - 1 ELSE node_index + 1
    IN  [data     |-> IF sibling_index >= Len(current_level)
                      THEN current_level[node_index + 1]
                      ELSE current_level[sibling_index + 1],
         position |-> IF is_right THEN "left" ELSE "right"]

RECURSIVE proof_from(_, _, _)
proof_from(t, level, node_index) ==
    IF level > Len(t.tree) - 1
    THEN <<>>
    ELSE <<proof_step(t.tree[level], node_index)>>
         \o proof_from(t, level + 1, node_index \div 2)

get_proof(t, leaf) ==
    IF index(t.leaves, leaf) = 0
    THEN Raise("ValueError")
    ELSE Return(proof_from(t, 1, index(t.leaves, leaf) - 1))

---------------------------------------------------------------------------
(* the path fold of verify_disclosure and verify_identity_in_registry *)

RECURSIVE fold(_, _)
fold(current, binary_proof) ==
    IF binary_proof = <<>>
    THEN current
    ELSE fold(IF Head(binary_proof).position = "left"
              THEN sha256(Head(binary_proof).data \o current)
              ELSE sha256(current \o Head(binary_proof).data),
              Tail(binary_proof))

---------------------------------------------------------------------------
(* dict: an insertion-ordered sequence of [key, val] items *)

keys(d) == [i \in 1..Len(d) |-> d[i].key]

has_key(d, k) == \E i \in 1..Len(d) : d[i].key = k

getitem(d, k) == d[CHOOSE i \in 1..Len(d) : d[i].key = k].val

\* d[k] = v: replaces the value of an existing key in place, else appends
setitem(d, k, v) ==
    IF has_key(d, k)
    THEN [i \in 1..Len(d) |-> IF d[i].key = k THEN [key |-> k, val |-> v] ELSE d[i]]
    ELSE Append(d, [key |-> k, val |-> v])

---------------------------------------------------------------------------
(* documents and json.dumps(..., sort_keys=True).encode('utf-8') *)

\* the attribute names and the attribute values, each in sorted order
KeyOrder == <<"dob", "id", "name", "nationality">>

ValOrder == <<"1990", "Alex", "CA", "Jane", "passport">>

position_in(order, x) == CHOOSE i \in 1..Len(order) : order[i] = x

\* the text of the items of doc from the p-th key on: one byte for the key
\* (100 + its rank), one for the value (150 + its rank)
RECURSIVE dumps_from(_, _)
dumps_from(doc, p) ==
    IF p > Len(KeyOrder)
    THEN <<>>
    ELSE (IF KeyOrder[p] \in DOMAIN doc
          THEN <<100 + p, 150 + position_in(ValOrder, doc[KeyOrder[p]])>>
          ELSE <<>>)
         \o dumps_from(doc, p + 1)

json_dumps(doc) == dumps_from(doc, 1)

\* {k: document[k] for k in attributes if k in document}
filtered(document, attributes) ==
    [k \in {a \in Range(attributes) : a \in DOMAIN document} |-> document[k]]

\* list(document.keys())
key_list(document) ==
    SelectSeq(KeyOrder, LAMBDA k : k \in DOMAIN document)

\* str(i) of a document's position
str(i) == <<"0", "1", "2", "3", "4", "5">>[i + 1]

\* doc.get("id", default)
doc_get_id(doc, default) == IF "id" \in DOMAIN doc THEN doc.id ELSE default

---------------------------------------------------------------------------
(* src/zk_merkle_identity.py *)

\* secrets.token_bytes(32), the n-th draw: a value no earlier draw gave
token_bytes(n) == <<n>>

\* _create_commitment on salt cache `cache`, drawing the n-th salt:
\* the commitment, the returned data and the new salt cache
_create_commitment(cache, document, attributes, n) ==
    LET salt         == token_bytes(n)
        filtered_doc == IF attributes # <<>>
                        THEN filtered(document, attributes)
                        ELSE document
        doc_bytes    == json_dumps(filtered_doc)
        commitment   == sha256(doc_bytes \o salt)
        attrs        == IF attributes # <<>> THEN attributes ELSE key_list(document)
    IN  [commitment |-> commitment,
         data       |-> [salt |-> hex(salt), attributes |-> attrs],
         cache      |-> setitem(cache, hex(commitment),
                                [salt |-> salt, attributes |-> attrs])]

\* the first loop of create_identity from the i-th document (0-based) on,
\* with `drawn` salts drawn before the call
RECURSIVE commit_documents(_, _, _, _, _)
commit_documents(acc, documents, selective_attributes, i, drawn) ==
    IF i >= Len(documents)
    THEN acc
    ELSE LET doc    == documents[i + 1]
             doc_id == doc_get_id(doc, str(i))
             attrs  == IF doc_id \in DOMAIN selective_attributes
                       THEN selective_attributes[doc_id]
                       ELSE <<>>
             c      == _create_commitment(acc.cache, doc, attrs, drawn + i + 1)
         IN  commit_documents(
                 [cache           |-> c.cache,
                  commitments     |-> Append(acc.commitments, c.commitment),
                  commitment_data |-> setitem(acc.commitment_data, hex(c.commitment),
                                        [document_id |-> doc_id,
                                         salt        |-> c.data.salt,
                                         attributes  |-> c.data.attributes])],
                 documents, selective_attributes, i + 1, drawn)

path_elements_of(proof) == [i \in 1..Len(proof) |-> hex(proof[i].data)]

path_indices_of(proof) ==
    [i \in 1..Len(proof) |-> IF proof[i].position = "right" THEN 1 ELSE 0]

\* the second loop of create_identity: each leaf's proof into commitment_data
RECURSIVE attach_proofs(_, _, _)
attach_proofs(commitment_data, t, i) ==
    IF i > Len(t.leaves)
    THEN commitment_data
    ELSE LET proof == get_proof(t, t.leaves[i]).val
             h     == hex(t.leaves[i])
         IN  attach_proofs(
                 IF has_key(commitment_data, h)
                 THEN setitem(commitment_data, h,
                        [document_id  |-> getitem(commitment_data, h).document_id,
                         salt         |-> getitem(commitment_data, h).salt,
                         attributes   |-> getitem(commitment_data, h).attributes,
                         merkle_proof |-> [path_elements |-> path_elements_of(proof),
                                           path_indices  |-> path_indices_of(proof)]])
                 ELSE commitment_data,
                 t, i + 1)

\* create_identity on an object with salt cache `cache` and tree `tree`:
\* the outcome and the object's new salt_cache and merkle_tree
create_identity(cache, tree, documents, selective_attributes, drawn) ==
    LET c == commit_documents(
                 [cache |-> cache, commitments |-> <<>>, commitment_data |-> <<>>],
                 documents, selective_attributes, 0, drawn)
        t == MerkleTree(c.commitments)
    IN  IF ~t.ok
        THEN [res |-> Raise("ValueError"), salt_cache |-> c.cache, merkle_tree |-> tree]
        ELSE [res |-> Return(
                 [merkle_root |-> hex(get_root(t.val)),
                  commitments |-> attach_proofs(c.commitment_data, t.val, 1),
                  documents   |-> [i \in 1..Len(documents) |->
                                      doc_get_id(documents[i], str(i - 1))]]),
              salt_cache  |-> c.cache,
              merkle_tree |-> t.val]

\* the search loop of generate_disclosure_proof from the i-th item of the
\* salt cache on: the index of the first item whose salt reproduces its own
\* commitment from filtered_doc, 0 when there is none
RECURSIVE find_commitment(_, _, _)
find_commitment(cache, filtered_doc, i) ==
    IF i > Len(cache)
    THEN 0
    ELSE IF hex(sha256(json_dumps(filtered_doc) \o cache[i].val.salt)) = cache[i].key
         THEN i
         ELSE find_commitment(cache, filtered_doc, i + 1)

generate_disclosure_proof(cache, tree, document, attributes_to_disclose) ==
    IF tree = None
    THEN Raise("ValueError: No identity has been created yet")
    ELSE LET filtered_doc == filtered(document, attributes_to_disclose)
             found        == find_commitment(cache, filtered_doc, 1)
         IN  IF found = 0
             THEN Raise("ValueError: Document not found in the identity")
             ELSE LET commitment_hex == cache[found].key
                      merkle_proof   == get_proof(tree, fromhex(commitment_hex))
                  IN  IF ~merkle_proof.ok
                      THEN Raise("ValueError: Leaf not found in the tree")
                      ELSE Return(
                        [merkle_root          |-> hex(get_root(tree)),
                         disclosed_attributes |-> filtered_doc,
                         commitment           |-> commitment_hex,
                         path_elements        |-> path_elements_of(merkle_proof.val),
                         path_indices         |-> path_indices_of(merkle_proof.val),
                         blinded_salt         |-> hex(sha256(cache[found].val.salt))])

\* the loop of verify_disclosure that builds binary_proof, from the i-th
\* path element on: the exception it raises first, "" when it raises none
RECURSIVE binary_proof_error(_, _)
binary_proof_error(proof, i) ==
    IF i > Len(proof.path_elements)
    THEN ""
    ELSE IF i > Len(proof.path_indices)
         THEN "IndexError"
         ELSE IF ~IsHex(proof.path_elements[i])
              THEN "ValueError"
              ELSE binary_proof_error(proof, i + 1)

binary_proof_of(proof) ==
    [i \in 1..Len(proof.path_elements) |->
        [data     |-> fromhex(proof.path_elements[i]),
         position |-> IF proof.path_indices[i] = 1 THEN "right" ELSE "left"]]

\* verify_disclosure that checks the path against the proof's own root
verify_disclosure_own_root(proof, expected_root) ==
    IF "merkle_root" \notin DOMAIN proof
    THEN Raise("KeyError")
    ELSE IF "commitment" \notin DOMAIN proof
    THEN Raise("KeyError")
    ELSE IF ~IsHex(proof.commitment)
    THEN Raise("ValueError")
    ELSE IF "path_elements" \notin DOMAIN proof
            \/ (proof.path_elements # <<>> /\ "path_indices" \notin DOMAIN proof)
    THEN Raise("KeyError")
    ELSE IF binary_proof_error(proof, 1) # ""
    THEN Raise(binary_proof_error(proof, 1))
    ELSE IF ~IsHex(proof.merkle_root)
    THEN Raise("ValueError")
    ELSE Return(fold(fromhex(proof.commitment), binary_proof_of(proof))
                = fromhex(proof.merkle_root))

verify_disclosure(proof, expected_root) ==
    IF "merkle_root" \notin DOMAIN proof
    THEN Raise("KeyError")
    ELSE IF proof.merkle_root # expected_root
    THEN Return(FALSE)
    ELSE IF "commitment" \notin DOMAIN proof
    THEN Raise("KeyError")
    ELSE IF ~IsHex(proof.commitment)
    THEN Raise("ValueError")
    ELSE IF "path_elements" \notin DOMAIN proof
            \/ (proof.path_elements # <<>> /\ "path_indices" \notin DOMAIN proof)
    THEN Raise("KeyError")
    ELSE IF binary_proof_error(proof, 1) # ""
    THEN Raise(binary_proof_error(proof, 1))
    ELSE IF ~IsHex(expected_root)
    THEN Raise("ValueError")
    ELSE Return(fold(fromhex(proof.commitment), binary_proof_of(proof))
                = fromhex(expected_root))

\* save_identity of an object with salt cache `cache` and tree `tree`:
\* the pickled content, or ValueError when there is no tree
save_identity(cache, tree) ==
    IF tree = None
    THEN Raise("ValueError: No identity has been created yet")
    ELSE Return([kind |-> "identity", salt_cache |-> cache,
                 merkle_tree |-> [leaves |-> tree.leaves, tree |-> tree.tree]])

\* the check of load_identity: every persisted node that has a counterpart
\* in the rebuilt tree equals it
loaded_tree_matches(persisted, rebuilt) ==
    \A level_idx \in 1..Len(persisted) :
        \A node_idx \in 1..Len(persisted[level_idx]) :
            (level_idx <= Len(rebuilt) /\ node_idx <= Len(rebuilt[level_idx]))
            => persisted[level_idx][node_idx] = rebuilt[level_idx][node_idx]

\* load_identity that does not restore the salt cache
load_identity_keeps_cache(cache, tree, content) ==
    IF content.kind = "absent"
    THEN [res |-> Raise("FileNotFoundError"), salt_cache |-> cache, merkle_tree |-> tree]
    ELSE IF content.kind # "identity"
    THEN [res |-> Raise("KeyError"), salt_cache |-> cache, merkle_tree |-> tree]
    ELSE LET t == MerkleTree(content.merkle_tree.leaves)
         IN  IF ~t.ok
             THEN [res |-> Raise("ValueError"),
                   salt_cache |-> cache, merkle_tree |-> tree]
             ELSE [res |-> Return(None),
                   salt_cache |-> cache, merkle_tree |-> t.val]

\* load_identity of file content `content` into an object with salt cache
\* `cache` and tree `tree`: the outcome and the object's new state
load_identity(cache, tree, content) ==
    IF content.kind = "absent"
    THEN [res |-> Raise("FileNotFoundError"), salt_cache |-> cache, merkle_tree |-> tree]
    ELSE IF content.kind # "identity"
    THEN [res |-> Raise("KeyError"), salt_cache |-> cache, merkle_tree |-> tree]
    ELSE LET t == MerkleTree(content.merkle_tree.leaves)
         IN  IF ~t.ok
             THEN [res |-> Raise("ValueError"),
                   salt_cache |-> content.salt_cache, merkle_tree |-> tree]
             ELSE IF ~loaded_tree_matches(content.merkle_tree.tree, t.val.tree)
             THEN [res |-> Raise("AssertionError"),
                   salt_cache |-> content.salt_cache, merkle_tree |-> t.val]
             ELSE [res |-> Return(None),
                   salt_cache |-> content.salt_cache, merkle_tree |-> t.val]

\* get_merkle_root of an object with tree `tree`
get_merkle_root(tree) ==
    IF tree = None
    THEN Raise("ValueError: No identity has been created yet")
    ELSE Return(hex(get_root(tree)))

---------------------------------------------------------------------------
(* src/identity_registry.py: IdentityRegistry *)

\* the storage directory: the registry file and one file per identity_id
NoFile == [kind |-> "absent"]

\* a file opened for writing ('wb' truncates it) and not yet written in full
Partial == [kind |-> "partial"]

\* the callers of register_identity, and a caller with no call in progress
Callers == {1, 2}

Idle == [pc |-> "idle"]

Ids == {"alice", "bob"}

FileNames == Ids \cup {"registry"}

\* storage_dir / f"{identity_id}.pkl"
identity_path(identity_id) == identity_id

\* an IdentityRegistry object
Registry(roots, tree, salts, data) ==
    [identity_roots |-> roots, registry_tree |-> tree,
     registry_salts |-> salts, registry_data |-> data]

\* load_registry that does not rebuild the registry tree
load_registry_no_rebuild(dir) ==
    IF dir["registry"].kind = "registry"
    THEN Registry(dir["registry"].identity_roots,
                  None,
                  dir["registry"].registry_salts,
                  dir["registry"].registry_data)
    ELSE Registry(<<>>, None, <<>>, <<>>)

\* load_registry: the object's state read from the storage directory
load_registry(dir) ==
    IF dir["registry"].kind = "registry"
    THEN Registry(dir["registry"].identity_roots,
                  IF dir["registry"].identity_roots # <<>>
                  THEN MerkleTree(dir["registry"].identity_roots).val
                  ELSE None,
                  dir["registry"].registry_salts,
                  dir["registry"].registry_data)
    ELSE Registry(<<>>, None, <<>>, <<>>)

\* _save_registry: the storage directory with the registry file written
_save_registry(dir, reg) ==
    [dir EXCEPT !["registry"] =
        [kind           |-> "registry",
         identity_roots |-> reg.identity_roots,
         registry_data  |-> reg.registry_data,
         registry_salts |-> reg.registry_salts]]

\* register_identity with registry salts that are not fresh
register_identity_stale_salt(reg, dir, identity_id, identity, metadata, n, now) ==
    LET saved == save_identity(identity.salt_cache, identity.merkle_tree)
    IN  IF ~saved.ok
        THEN [res |-> saved, reg |-> reg, dir |-> dir]
        ELSE LET identity_root_hex == get_merkle_root(identity.merkle_tree).val
                 salt       == token_bytes(0)
                 commitment == sha256(fromhex(identity_root_hex) \o salt)
                 entry      == [identity_root |-> identity_root_hex,
                                identity_id   |-> identity_id,
                                identity_path |-> identity_path(identity_id),
                                metadata      |-> IF metadata = None THEN <<>> ELSE metadata,
                                registered_at |-> now,
                                salt          |-> hex(salt)]
                 roots      == Append(reg.identity_roots, commitment)
                 new        == Registry(roots, MerkleTree(roots).val,
                                  setitem(reg.registry_salts, hex(commitment), salt),
                                  setitem(reg.registry_data, hex(commitment), entry))
             IN  [res |-> Return(entry),
                  reg |-> new,
                  dir |-> _save_registry(
                            [dir EXCEPT ![identity_path(identity_id)] = saved.val], new)]

\* register_identity that writes the registry file before it adds the entry
register_identity_early_save(reg, dir, identity_id, identity, metadata, n, now) ==
    LET saved == save_identity(identity.salt_cache, identity.merkle_tree)
    IN  IF ~saved.ok
        THEN [res |-> saved, reg |-> reg, dir |-> dir]
        ELSE LET identity_root_hex == get_merkle_root(identity.merkle_tree).val
                 salt       == token_bytes(n)
                 commitment == sha256(fromhex(identity_root_hex) \o salt)
                 entry      == [identity_root |-> identity_root_hex,
                                identity_id   |-> identity_id,
                                identity_path |-> identity_path(identity_id),
                                metadata      |-> IF metadata = None THEN <<>> ELSE metadata,
                                registered_at |-> now,
                                salt          |-> hex(salt)]
                 roots      == Append(reg.identity_roots, commitment)
                 new        == Registry(roots, MerkleTree(roots).val,
                                  setitem(reg.registry_salts, hex(commitment), salt),
                                  setitem(reg.registry_data, hex(commitment), entry))
             IN  [res |-> Return(entry),
                  reg |-> new,
                  dir |-> _save_registry(
                            [dir EXCEPT ![identity_path(identity_id)] = saved.val], reg)]

\* register_identity that does not rebuild the registry tree
register_identity_no_rebuild(reg, dir, identity_id, identity, metadata, n, now) ==
    LET saved == save_identity(identity.salt_cache, identity.merkle_tree)
    IN  IF ~saved.ok
        THEN [res |-> saved, reg |-> reg, dir |-> dir]
        ELSE LET identity_root_hex == get_merkle_root(identity.merkle_tree).val
                 salt       == token_bytes(n)
                 commitment == sha256(fromhex(identity_root_hex) \o salt)
                 entry      == [identity_root |-> identity_root_hex,
                                identity_id   |-> identity_id,
                                identity_path |-> identity_path(identity_id),
                                metadata      |-> IF metadata = None THEN <<>> ELSE metadata,
                                registered_at |-> now,
                                salt          |-> hex(salt)]
                 roots      == Append(reg.identity_roots, commitment)
                 new        == Registry(roots, reg.registry_tree,
                                  setitem(reg.registry_salts, hex(commitment), salt),
                                  setitem(reg.registry_data, hex(commitment), entry))
             IN  [res |-> Return(entry),
                  reg |-> new,
                  dir |-> _save_registry(
                            [dir EXCEPT ![identity_path(identity_id)] = saved.val], new)]

\* register_identity on registry object `reg` and storage directory `dir`,
\* drawing the n-th salt at time `now`: the outcome, the object and the directory
register_identity(reg, dir, identity_id, identity, metadata, n, now) ==
    LET saved == save_identity(identity.salt_cache, identity.merkle_tree)
    IN  IF ~saved.ok
        THEN [res |-> saved, reg |-> reg, dir |-> dir]
        ELSE LET identity_root_hex == get_merkle_root(identity.merkle_tree).val
                 salt       == token_bytes(n)
                 commitment == sha256(fromhex(identity_root_hex) \o salt)
                 entry      == [identity_root |-> identity_root_hex,
                                identity_id   |-> identity_id,
                                identity_path |-> identity_path(identity_id),
                                metadata      |-> IF metadata = None THEN <<>> ELSE metadata,
                                registered_at |-> now,
                                salt          |-> hex(salt)]
                 roots      == Append(reg.identity_roots, commitment)
                 new        == Registry(roots, MerkleTree(roots).val,
                                  setitem(reg.registry_salts, hex(commitment), salt),
                                  setitem(reg.registry_data, hex(commitment), entry))
             IN  [res |-> Return(entry),
                  reg |-> new,
                  dir |-> _save_registry(
                            [dir EXCEPT ![identity_path(identity_id)] = saved.val], new)]

get_registry_root(tree) == IF tree = None THEN <<>> ELSE hex(get_root(tree))

\* zip(proof['path_elements'], proof['path_positions'])
zipped(proof) ==
    [i \in 1..(IF Len(proof.path_elements) <= Len(proof.path_positions)
               THEN Len(proof.path_elements)
               ELSE Len(proof.path_positions)) |->
        [data |-> proof.path_elements[i], position |-> proof.path_positions[i]]]

\* verify_identity_in_registry that compares with the root the proof embeds
verify_identity_in_registry_embedded_root(tree, identity_root, proof) ==
    IF "salt" \notin DOMAIN proof \/ ~IsHex(proof.salt) \/ ~IsHex(identity_root)
    THEN Return(FALSE)
    ELSE IF {"path_elements", "path_positions"} \ DOMAIN proof # {}
    THEN Raise("KeyError")
    ELSE LET steps == zipped(proof)
         IN  IF \E i \in 1..Len(steps) : ~IsHex(steps[i].data)
             THEN Raise("ValueError")
             ELSE Return(
                    fold(sha256(fromhex(identity_root) \o fromhex(proof.salt)),
                         [i \in 1..Len(steps) |->
                            [data     |-> fromhex(steps[i].data),
                             position |-> steps[i].position]])
                    = IF "registry_root" \in DOMAIN proof /\ IsHex(proof.registry_root)
                      THEN fromhex(proof.registry_root)
                      ELSE IF tree = None THEN <<>> ELSE get_root(tree))

\* verify_identity_in_registry that only looks the commitment up among the
\* leaves and never walks the path
verify_identity_in_registry_leaf_lookup(tree, identity_root, proof) ==
    IF "salt" \notin DOMAIN proof \/ ~IsHex(proof.salt) \/ ~IsHex(identity_root)
    THEN Return(FALSE)
    ELSE IF tree = None
    THEN Return(FALSE)
    ELSE IF {"path_elements", "path_positions"} \ DOMAIN proof # {}
    THEN Raise("KeyError")
    ELSE IF \E i \in 1..Len(zipped(proof)) : ~IsHex(zipped(proof)[i].data)
    THEN Raise("ValueError")
    ELSE Return(sha256(fromhex(identity_root) \o fromhex(proof.salt))
                  \in Range(tree.leaves))

verify_identity_in_registry(tree, identity_root, proof) ==
    IF "salt" \notin DOMAIN proof \/ ~IsHex(proof.salt) \/ ~IsHex(identity_root)
    THEN Return(FALSE)
    ELSE IF tree = None
    THEN Return(FALSE)
    ELSE IF {"path_elements", "path_positions"} \ DOMAIN proof # {}
    THEN Raise("KeyError")
    ELSE LET steps == zipped(proof)
         IN  IF \E i \in 1..Len(steps) : ~IsHex(steps[i].data)
             THEN Raise("ValueError")
             ELSE Return(
                    fold(sha256(fromhex(identity_root) \o fromhex(proof.salt)),
                         [i \in 1..Len(steps) |->
                            [data     |-> fromhex(steps[i].data),
                             position |-> steps[i].position]])
                    = get_root(tree))

\* next((v for v in registry_data.values() if v[field] == x), None):
\* the index of the first such item, 0 when there is none
find_entry(data, field, x) ==
    IF \E i \in 1..Len(data) : data[i].val[field] = x
    THEN CHOOSE i \in 1..Len(data) :
            data[i].val[field] = x /\ \A j \in 1..(i - 1) : data[j].val[field] # x
    ELSE 0

\* lines 150-165 of generate_registry_proof, for the entry identity_info
proof_of_entry(tree, identity_info) ==
    LET commitment   == sha256(fromhex(identity_info.identity_root)
                               \o fromhex(identity_info.salt))
        merkle_proof == get_proof(tree, commitment)
    IN  IF ~merkle_proof.ok
        THEN Raise("ValueError: Leaf not found in the tree")
        ELSE Return(
            [identity_root  |-> identity_info.identity_root,
             salt           |-> identity_info.salt,
             path_elements  |-> path_elements_of(merkle_proof.val),
             path_positions |-> [i \in 1..Len(merkle_proof.val) |->
                                    merkle_proof.val[i].position],
             registry_root  |-> get_registry_root(tree)])

\* generate_registry_proof that falls back to the first entry
generate_registry_proof_any_entry(reg, identity_id) ==
    IF reg.registry_data = <<>>
    THEN Raise("ValueError: Identity not found in registry")
    ELSE proof_of_entry(reg.registry_tree,
            reg.registry_data[
                IF find_entry(reg.registry_data, "identity_id", identity_id) = 0
                THEN 1
                ELSE find_entry(reg.registry_data, "identity_id", identity_id)].val)

generate_registry_proof(reg, identity_id) ==
    IF find_entry(reg.registry_data, "identity_id", identity_id) = 0
    THEN Raise("ValueError: Identity not found in registry")
    ELSE proof_of_entry(reg.registry_tree,
            reg.registry_data[find_entry(reg.registry_data,
                                         "identity_id", identity_id)].val)

get_identity(reg, dir, identity_id) ==
    IF find_entry(reg.registry_data, "identity_id", identity_id) = 0
    THEN Raise("ValueError: Identity not found in registry")
    ELSE LET identity_info == reg.registry_data[find_entry(reg.registry_data,
                                  "identity_id", identity_id)].val
             loaded == load_identity(<<>>, None, dir[identity_info.identity_path])
         IN  IF ~loaded.res.ok
             THEN loaded.res
             ELSE Return([salt_cache  |-> loaded.salt_cache,
                          merkle_tree |-> loaded.merkle_tree])

list_identities(reg) ==
    [i \in 1..Len(reg.registry_data) |->
        [id            |-> reg.registry_data[i].val.identity_id,
         registered_at |-> reg.registry_data[i].val.registered_at,
         metadata      |-> reg.registry_data[i].val.metadata,
         identity_root |-> reg.registry_data[i].val.identity_root]]

---------------------------------------------------------------------------
(* src/identity_registry.py: RegistryVerifier *)

\* verify_user_package that takes the entry's presence for membership
verify_user_package_found_is_valid(reg, user_package) ==
    IF "merkle_root" \notin DOMAIN user_package \/ user_package.merkle_root = <<>>
    THEN Raise("ValueError: Invalid user package: missing merkle_root")
    ELSE IF find_entry(reg.registry_data, "identity_root", user_package.merkle_root) = 0
    THEN Return([valid |-> FALSE, reason |-> "Identity not found in registry"])
    ELSE LET identity_info == reg.registry_data[find_entry(reg.registry_data,
                                  "identity_root", user_package.merkle_root)].val
         IN  IF "proof" \notin DOMAIN user_package
             THEN Raise("KeyError: proof")
             ELSE IF {"salt", "path_elements", "path_positions"}
                        \ DOMAIN user_package.proof # {}
             THEN Raise("KeyError")
             ELSE Return([valid          |-> TRUE,
                          registry_proof |-> user_package.proof,
                          identity_id    |-> identity_info.identity_id,
                          metadata       |-> identity_info.metadata])

verify_user_package(reg, user_package) ==
    IF "merkle_root" \notin DOMAIN user_package \/ user_package.merkle_root = <<>>
    THEN Raise("ValueError: Invalid user package: missing merkle_root")
    ELSE IF find_entry(reg.registry_data, "identity_root", user_package.merkle_root) = 0
    THEN Return([valid |-> FALSE, reason |-> "Identity not found in registry"])
    ELSE LET identity_info == reg.registry_data[find_entry(reg.registry_data,
                                  "identity_root", user_package.merkle_root)].val
         IN  IF "proof" \notin DOMAIN user_package
             THEN Raise("KeyError: proof")
             ELSE IF {"salt", "path_elements", "path_positions"}
                        \ DOMAIN user_package.proof # {}
             THEN Raise("KeyError")
             ELSE LET is_valid == verify_identity_in_registry(
                                    reg.registry_tree, user_package.merkle_root,
                                    [salt           |-> user_package.proof.salt,
                                     path_elements  |-> user_package.proof.path_elements,
                                     path_positions |-> user_package.proof.path_positions])
                  IN  IF ~is_valid.ok
                      THEN is_valid
                      ELSE Return([valid          |-> is_valid.val,
                                   registry_proof |-> IF is_valid.val
                                                      THEN user_package.proof
                                                      ELSE None,
                                   identity_id    |-> identity_info.identity_id,
                                   metadata       |-> identity_info.metadata])

verify_document_disclosure(reg, dir, disclosure_proof) ==
    IF "merkle_root" \notin DOMAIN disclosure_proof \/ disclosure_proof.merkle_root = <<>>
    THEN Raise("ValueError: Invalid disclosure proof: missing merkle_root")
    ELSE LET root_verification ==
                verify_user_package(reg, [merkle_root |-> disclosure_proof.merkle_root])
         IN  IF ~root_verification.ok
             THEN root_verification
             ELSE IF ~root_verification.val.valid
             THEN Return([valid  |-> FALSE,
                          reason |-> "Identity root not valid in registry",
                          root_verification |-> root_verification.val])
             ELSE LET identity == get_identity(reg, dir,
                                               root_verification.val.identity_id)
                  IN  IF ~identity.ok
                      THEN identity
                      ELSE LET doc_valid == verify_disclosure(disclosure_proof,
                                                disclosure_proof.merkle_root)
                           IN  IF ~doc_valid.ok
                               THEN doc_valid
                               ELSE Return(
                                 [valid       |-> doc_valid.val,
                                  identity_id |-> root_verification.val.identity_id,
                                  disclosed_attributes |->
                                      IF "disclosed_attributes" \in DOMAIN disclosure_proof
                                      THEN disclosure_proof.disclosed_attributes
                                      ELSE <<>>,
                                  registry_proof |->
                                      root_verification.val.registry_proof])

---------------------------------------------------------------------------
(* bounds and input sets of the tree specification *)

MaxLeaves == 5

\* leaf values: three plain byte strings and the parent of the first two
LeafVals == {<<1>>, <<2>>, <<3>>, _hash_pair(<<1>>, <<2>>)}

RECURSIVE SeqsUpTo(_, _)
SeqsUpTo(S, n) ==
    IF n = 0
    THEN {<<>>}
    ELSE LET shorter == SeqsUpTo(S, n - 1)
         IN  shorter \cup {Append(s, x) : s \in shorter, x \in S}

---------------------------------------------------------------------------
(* SpecTree: one MerkleTree, built once and then asked for proofs *)

identityVars == <<salt_cache, merkle_tree>>

registryVars == <<identity_roots, registry_tree, registry_salts, registry_data,
                  files, clock, registered>>

\* no MerkleTree yet, a fresh ZKMerkleIdentity(), an IdentityRegistry on an
\* empty storage directory, no salt drawn
Init ==
    /\ mt = None
    /\ salt_cache = <<>>
    /\ merkle_tree = None
    /\ identity_roots = <<>>
    /\ registry_tree = None
    /\ registry_salts = <<>>
    /\ registry_data = <<>>
    /\ files = [f \in FileNames |-> NoFile]
    /\ entropy = 0
    /\ clock = 0
    /\ registered = <<>>
    /\ calls = [p \in Callers |-> Idle]
    /\ out = [op |-> "none"]

\* t = MerkleTree(leaves)
TreeInit ==
    /\ mt = None
    /\ \E leaves \in SeqsUpTo(LeafVals, MaxLeaves) :
        LET r == MerkleTree(leaves)
        IN  /\ mt' = IF r.ok THEN r.val ELSE None
            /\ out' = [op |-> "MerkleTree", leaves |-> leaves, ok |-> r.ok]
    /\ UNCHANGED <<identityVars, registryVars, entropy, calls>>

\* t.get_proof(leaf)
TreeGetProof ==
    /\ mt # None
    /\ \E leaf \in LeafVals :
        out' = [op |-> "get_proof", leaf |-> leaf, res |-> get_proof(mt, leaf)]
    /\ UNCHANGED <<mt, calls, identityVars, registryVars, entropy>>

NextTree == TreeInit \/ TreeGetProof

SpecTree == Init /\ [][NextTree]_vars

---------------------------------------------------------------------------
(* bounds and input sets of the identity specification *)

MaxDocs == 2

MaxSalts == 3

Passport == [id |-> "passport", name |-> "Jane", nationality |-> "CA", dob |-> "1990"]

\* a document with no "id": its identifier is its position
Untitled == [name |-> "Alex", dob |-> "1990"]

Docs == {Passport, Untitled}

\* selective_attributes: None (no key), or a list for "passport" or for "0"
Selections ==
    {<<>>,
     [passport |-> <<"name", "nationality", "dob">>],
     [k \in {"0"} |-> <<"name">>]}

AttrLists ==
    {<<>>, <<"name">>, <<"name", "nationality">>, <<"dob", "name">>,
     <<"name", "nationality", "dob">>, KeyOrder}

\* a root that is the root of no identity of the model
ForeignRoot == hex(sha256(<<99>>))

\* a proof with its first k path steps folded into its commitment
lifted(p, k) ==
    [p EXCEPT
        !.commitment    = hex(fold(fromhex(p.commitment),
                                   SubSeq(binary_proof_of(p), 1, k))),
        !.path_elements = SubSeq(p.path_elements, k + 1, Len(p.path_elements)),
        !.path_indices  = SubSeq(p.path_indices, k + 1, Len(p.path_indices))]

\* a string that is no hex ("zz") and a hex string of odd length ("abc")
NotHex == <<35, 35>>

OddHex == <<10, 11, 12>>

\* the record d without its field k
without(d, k) == [f \in DOMAIN d \ {k} |-> d[f]]

\* malformed proofs made from a generated proof p
Malformed(p) ==
    {[p EXCEPT !.commitment = NotHex], [p EXCEPT !.commitment = OddHex],
     without(p, "commitment")}
    \cup {[p EXCEPT !.path_elements[i] = NotHex] : i \in 1..Len(p.path_elements)}
    \cup (IF p.path_indices # <<>>
          THEN {[p EXCEPT !.path_indices = Tail(@)]}
          ELSE {})

\* what a caller may hand to verify_disclosure, given a generated proof p:
\* p itself and p with some of its fields changed
Tampered(p) ==
    {p}
    \cup Malformed(p)
    \cup {[p EXCEPT !.commitment = upper(@)]}
    \cup {[p EXCEPT !.path_elements[i] = upper(@)] : i \in 1..Len(p.path_elements)}
    \cup {[p EXCEPT !.disclosed_attributes = d] :
            d \in {[name |-> "Alex"], [name |-> "Jane", id |-> "passport"], <<>>}}
    \cup {lifted(p, k) : k \in 1..Len(p.path_elements)}
    \cup {[p EXCEPT !.merkle_root = ForeignRoot]}
    \cup {[p EXCEPT !.commitment = ForeignRoot]}
    \cup {[p EXCEPT !.path_elements[i] = ForeignRoot] : i \in 1..Len(p.path_elements)}
    \cup {[p EXCEPT !.path_indices[i] = 1 - @] : i \in 1..Len(p.path_indices)}

---------------------------------------------------------------------------
(* SpecIdentity: one ZKMerkleIdentity object and the calls made on it *)

\* identity.create_identity(documents, selective_attributes)
CreateIdentity ==
    \E documents \in SeqsUpTo(Docs, MaxDocs), selective_attributes \in Selections :
        LET r == create_identity(salt_cache, merkle_tree, documents,
                                 selective_attributes, entropy)
        IN  /\ entropy + Len(documents) <= MaxSalts
            /\ salt_cache' = r.salt_cache
            /\ merkle_tree' = r.merkle_tree
            /\ entropy' = entropy + Len(documents)
            /\ out' = [op |-> "create_identity", documents |-> documents,
                       selective_attributes |-> selective_attributes, res |-> r.res]
            /\ UNCHANGED <<mt, calls, registryVars>>

\* identity.generate_disclosure_proof(document, attributes_to_disclose)
GenerateDisclosureProof ==
    \E document \in Docs, attributes_to_disclose \in AttrLists :
        /\ out' = [op |-> "generate_disclosure_proof", document |-> document,
                   attributes_to_disclose |-> attributes_to_disclose,
                   res |-> generate_disclosure_proof(salt_cache, merkle_tree,
                                document, attributes_to_disclose)]
        /\ UNCHANGED <<mt, calls, identityVars, registryVars, entropy>>

\* identity.verify_disclosure(proof, expected_root), on the proof the last
\* call generated (`base`) or on that proof with fields changed
VerifyDisclosure ==
    /\ out.op = "generate_disclosure_proof"
    /\ out.res.ok
    /\ \E proof \in Tampered(out.res.val),
          expected_root \in {hex(get_root(merkle_tree)),
                             upper(hex(get_root(merkle_tree))), ForeignRoot} :
        out' = [op |-> "verify_disclosure", base |-> out.res.val, proof |-> proof,
                expected_root |-> expected_root,
                res |-> verify_disclosure(proof, expected_root)]
    /\ UNCHANGED <<mt, calls, identityVars, registryVars, entropy>>

\* the file the identity is saved to and loaded from
IdentityFile == identity_path("alice")

\* identity.save_identity(filepath)
SaveIdentity ==
    LET r == save_identity(salt_cache, merkle_tree)
    IN  /\ files' = IF r.ok THEN [files EXCEPT ![IdentityFile] = r.val] ELSE files
        /\ out' = [op |-> "save_identity",
                   res |-> IF r.ok THEN Return(None) ELSE r]
        /\ UNCHANGED <<mt, calls, identityVars, identity_roots, registry_tree,
                       registry_salts, registry_data, clock, registered, entropy>>

\* loaded = ZKMerkleIdentity(); loaded.load_identity(filepath): the loaded
\* object takes the place of the one that was saved
LoadIdentity ==
    LET r == load_identity(<<>>, None, files[IdentityFile])
    IN  /\ salt_cache' = r.salt_cache
        /\ merkle_tree' = r.merkle_tree
        /\ out' = [op |-> "load_identity", res |-> r.res]
        /\ UNCHANGED <<mt, calls, registryVars, entropy>>

NextIdentity ==
    \/ CreateIdentity
    \/ GenerateDisclosureProof
    \/ VerifyDisclosure
    \/ SaveIdentity
    \/ LoadIdentity

SpecIdentity == Init /\ [][NextIdentity]_vars

---------------------------------------------------------------------------
(* load_identity on snapshot files whose level list is not the one         *)
(* save_identity wrote                                                     *)

\* a node value that no tree of the model contains
ForeignNode == sha256(<<98>>)

\* the level lists that differ from `tree` in one node value, in the number
\* of levels, or in the number of nodes of one level
Altered(tree) ==
    UNION {{[tree EXCEPT ![l][n] = ForeignNode] : n \in 1..Len(tree[l])} :
             l \in 1..Len(tree)}
    \cup {SubSeq(tree, 1, Len(tree) - 1), <<>>, tree \o <<<<ForeignNode>>>>}
    \cup {[tree EXCEPT ![l] = SubSeq(tree[l], 1, Len(tree[l]) - 1)] : l \in 1..Len(tree)}
    \cup {[tree EXCEPT ![l] = tree[l] \o <<ForeignNode>>] : l \in 1..Len(tree)}

\* the file at filepath is found with another level list than the one that
\* was saved (pickle.load returns whatever the file holds)
TamperFile ==
    /\ files[IdentityFile].kind = "identity"
    /\ files[IdentityFile].merkle_tree.tree
         = _build_tree(files[IdentityFile].merkle_tree.leaves)
    /\ \E tree \in Altered(files[IdentityFile].merkle_tree.tree) :
        /\ files' = [files EXCEPT ![IdentityFile].merkle_tree.tree = tree]
        /\ out' = [op |-> "file_altered", tree |-> tree]
    /\ UNCHANGED <<mt, calls, identityVars, identity_roots, registry_tree,
                   registry_salts, registry_data, clock, registered, entropy>>

\* identity.load_identity(filepath) on the object at hand
LoadInto ==
    LET r == load_identity(salt_cache, merkle_tree, files[IdentityFile])
    IN  /\ salt_cache' = r.salt_cache
        /\ merkle_tree' = r.merkle_tree
        /\ out' = [op |-> "load_identity", res |-> r.res,
                   content |-> files[IdentityFile],
                   before |-> [salt_cache |-> salt_cache, merkle_tree |-> merkle_tree]]
        /\ UNCHANGED <<mt, calls, registryVars, entropy>>

NextSnapshot ==
    \/ CreateIdentity
    \/ SaveIdentity
    \/ TamperFile
    \/ LoadInto

SpecSnapshot == Init /\ [][NextSnapshot]_vars

---------------------------------------------------------------------------
(* bounds and input sets of the registry specification *)

MaxRegistrations == 3

\* the identities callers register: two built by create_identity (the first
\* three salts drawn) and one on which create_identity was never called
IdentityA ==
    LET r == create_identity(<<>>, None, <<Passport, Untitled>>,
                             [passport |-> <<"name", "nationality", "dob">>], 0)
    IN  [salt_cache |-> r.salt_cache, merkle_tree |-> r.merkle_tree]

IdentityB ==
    LET r == create_identity(<<>>, None, <<Untitled>>, <<>>, 2)
    IN  [salt_cache |-> r.salt_cache, merkle_tree |-> r.merkle_tree]

Unbuilt == [salt_cache |-> <<>>, merkle_tree |-> None]

Identities == {IdentityA, IdentityB, Unbuilt}

\* who registers: an identity_id and the metadata given with it
Registrants ==
    {[identity_id |-> "alice", metadata |-> None],
     [identity_id |-> "bob", metadata |-> [type |-> "individual"]]}

\* the registry object and what callers can know of it
registry == Registry(identity_roots, registry_tree, registry_salts, registry_data)

KnownRoots == {hex(get_root(IdentityA.merkle_tree)), hex(get_root(IdentityB.merkle_tree))}

\* the membership proof of every entry, in the current tree
EntryProofs ==
    {proof_of_entry(registry_tree, registry_data[i].val).val :
        i \in {j \in 1..Len(registry_data) :
                 registry_tree # None
                 /\ proof_of_entry(registry_tree, registry_data[j].val).ok}}

\* a proof nobody was given: a salt of no entry and an empty path
Unissued ==
    [salt |-> hex(token_bytes(99)), path_elements |-> <<>>, path_positions |-> <<>>,
     registry_root |-> <<>>]

\* from the membership proof p of an outer leaf: the two children of that
\* leaf's parent as "identity root" and "salt", with the rest of p's path
parent_as_commitment(p) ==
    LET leaf == hex(sha256(fromhex(p.identity_root) \o fromhex(p.salt)))
    IN  [identity_root |->
            IF p.path_positions[1] = "left" THEN p.path_elements[1] ELSE leaf,
         proof |->
            [salt           |-> IF p.path_positions[1] = "left"
                                THEN leaf ELSE p.path_elements[1],
             path_elements  |-> Tail(p.path_elements),
             path_positions |-> Tail(p.path_positions),
             registry_root  |-> p.registry_root]]

\* malformed submissions made from the membership proof p of an entry
MalformedSubmissions(p) ==
    {[identity_root |-> NotHex, proof |-> p],
     [identity_root |-> p.identity_root, proof |-> [p EXCEPT !.salt = OddHex]],
     [identity_root |-> p.identity_root, proof |-> without(p, "salt")],
     [identity_root |-> p.identity_root, proof |-> without(p, "path_elements")]}
    \cup (IF p.path_elements # <<>>
          THEN {[identity_root |-> p.identity_root,
                 proof |-> [p EXCEPT !.path_elements[1] = NotHex]],
                [identity_root |-> p.identity_root,
                 proof |-> [p EXCEPT !.path_positions = Tail(@)]]}
          ELSE {})

\* the membership proof p of an entry with one part replaced by another
\* value, by the same value in upper case, or with another embedded root
Substituted(p) ==
    {[identity_root |-> upper(p.identity_root), proof |-> p],
     [identity_root |-> p.identity_root, proof |-> [p EXCEPT !.salt = upper(@)]],
     [identity_root |-> p.identity_root,
      proof |-> [p EXCEPT !.salt = hex(token_bytes(99))]],
     [identity_root |-> p.identity_root,
      proof |-> [p EXCEPT !.registry_root = ForeignRoot]]}
    \cup (IF p.path_elements # <<>>
          THEN {[identity_root |-> p.identity_root,
                 proof |-> [p EXCEPT !.path_elements[1] = ForeignRoot]],
                [identity_root |-> p.identity_root,
                 proof |-> [p EXCEPT !.path_elements[1] = upper(@)]]}
          ELSE {})

\* the registry object as it was when it held its first k entries
registry_at(k) ==
    Registry(SubSeq(identity_roots, 1, k),
             MerkleTree(SubSeq(identity_roots, 1, k)).val,
             SubSeq(registry_salts, 1, k),
             SubSeq(registry_data, 1, k))

\* the proofs generate_registry_proof returned before the latest
\* registration, when the registry held fewer entries
IssuedEarlier ==
    {generate_registry_proof(registry_at(k[1]), k[2]).val :
        k \in {x \in (1..MaxRegistrations) \X Ids :
                 /\ x[1] < Len(identity_roots)
                 /\ Len(registry_salts) = Len(identity_roots)
                 /\ Len(registry_data) = Len(identity_roots)
                 /\ generate_registry_proof(registry_at(x[1]), x[2]).ok}}

\* what a caller may hand to verify_identity_in_registry
Submissions ==
    {[identity_root |-> r, proof |-> p] :
        r \in KnownRoots, p \in EntryProofs \cup {Unissued}}
    \cup {[identity_root |-> hex(get_root(IdentityA.merkle_tree)), proof |-> p] :
            p \in {without(Unissued, "path_elements"),
                   [Unissued EXCEPT !.path_elements = <<NotHex>>,
                                    !.path_positions = <<"left">>]}}
    \cup {parent_as_commitment(p) : p \in {q \in EntryProofs : q.path_elements # <<>>}}
    \cup UNION {MalformedSubmissions(p) \cup Substituted(p) : p \in EntryProofs}
    \cup {[identity_root |-> p.identity_root, proof |-> p] : p \in IssuedEarlier}

\* what a caller may hand to verify_user_package
Packages ==
    {[merkle_root |-> r, proof |-> p] :
        r \in KnownRoots, p \in EntryProofs \cup {Unissued}}
    \cup {[merkle_root |-> ForeignRoot, proof |-> Unissued],
          [merkle_root |-> hex(get_root(IdentityA.merkle_tree))],
          [merkle_root |-> <<>>, proof |-> Unissued],
          [proof |-> Unissued]}

\* disclosure proofs generated from the two identities, and the same with
\* the root of no identity
GeneratedDisclosures ==
    {generate_disclosure_proof(IdentityA.salt_cache, IdentityA.merkle_tree,
                               Passport, <<"name", "nationality", "dob">>).val,
     generate_disclosure_proof(IdentityB.salt_cache, IdentityB.merkle_tree,
                               Untitled, <<"name", "dob">>).val}

DisclosureProofs ==
    GeneratedDisclosures
    \cup {[p EXCEPT !.merkle_root = ForeignRoot] : p \in GeneratedDisclosures}

---------------------------------------------------------------------------
(* SpecRegistry: one IdentityRegistry object on one storage directory *)

InitRegistry ==
    /\ mt = None
    /\ salt_cache = <<>>
    /\ merkle_tree = None
    /\ identity_roots = <<>>
    /\ registry_tree = None
    /\ registry_salts = <<>>
    /\ registry_data = <<>>
    /\ files = [f \in FileNames |-> NoFile]
    /\ entropy = Len(IdentityA.salt_cache) + Len(IdentityB.salt_cache)
    /\ clock = 0
    /\ registered = <<>>
    /\ calls = [p \in Callers |-> Idle]
    /\ out = [op |-> "none"]

\* registry.register_identity(identity_id, identity, metadata)
RegisterIdentity ==
    /\ Len(registered) < MaxRegistrations
    /\ \E registrant \in Registrants, identity \in Identities :
        LET identity_id == registrant.identity_id
            metadata    == registrant.metadata
            r == register_identity(registry, files, identity_id, identity,
                                   metadata, entropy + 1, clock)
        IN  /\ identity_roots' = r.reg.identity_roots
            /\ registry_tree' = r.reg.registry_tree
            /\ registry_salts' = r.reg.registry_salts
            /\ registry_data' = r.reg.registry_data
            /\ files' = r.dir
            /\ entropy' = IF r.res.ok THEN entropy + 1 ELSE entropy
            /\ clock' = IF r.res.ok THEN clock + 1 ELSE clock
            /\ registered' = IF r.res.ok THEN Append(registered, r.res.val)
                             ELSE registered
            /\ out' = [op |-> "register_identity", identity_id |-> identity_id,
                       res |-> r.res]
    /\ UNCHANGED <<mt, calls, identityVars>>

\* registry = IdentityRegistry(storage_dir): __init__ and load_registry
LoadRegistry ==
    /\ identity_roots' = load_registry(files).identity_roots
    /\ registry_tree' = load_registry(files).registry_tree
    /\ registry_salts' = load_registry(files).registry_salts
    /\ registry_data' = load_registry(files).registry_data
    /\ out' = [op |-> "load_registry"]
    /\ UNCHANGED <<mt, calls, identityVars, files, entropy, clock, registered>>

\* registry.generate_registry_proof(identity_id)
GenerateRegistryProof ==
    /\ \E identity_id \in Ids :
        out' = [op |-> "generate_registry_proof", identity_id |-> identity_id,
                res |-> generate_registry_proof(registry, identity_id)]
    /\ UNCHANGED <<mt, calls, identityVars, registryVars, entropy>>

\* registry.get_identity(identity_id)
GetIdentity ==
    /\ \E identity_id \in Ids :
        out' = [op |-> "get_identity", identity_id |-> identity_id,
                res |-> get_identity(registry, files, identity_id)]
    /\ UNCHANGED <<mt, calls, identityVars, registryVars, entropy>>

\* registry.verify_identity_in_registry(identity_root, proof)
VerifyIdentityInRegistry ==
    /\ \E s \in Submissions :
        out' = [op |-> "verify_identity_in_registry",
                identity_root |-> s.identity_root, proof |-> s.proof,
                res |-> verify_identity_in_registry(registry_tree,
                                                    s.identity_root, s.proof)]
    /\ UNCHANGED <<mt, calls, identityVars, registryVars, entropy>>

\* RegistryVerifier.verify_user_package(registry, user_package)
VerifyUserPackage ==
    /\ \E user_package \in Packages :
        out' = [op |-> "verify_user_package", user_package |-> user_package,
                res |-> verify_user_package(registry, user_package)]
    /\ UNCHANGED <<mt, calls, identityVars, registryVars, entropy>>

\* RegistryVerifier.verify_document_disclosure(registry, disclosure_proof)
VerifyDocumentDisclosure ==
    /\ \E disclosure_proof \in DisclosureProofs :
        out' = [op |-> "verify_document_disclosure",
                disclosure_proof |-> disclosure_proof,
                res |-> verify_document_disclosure(registry, files, disclosure_proof)]
    /\ UNCHANGED <<mt, calls, identityVars, registryVars, entropy>>

NextRegistry ==
    \/ RegisterIdentity
    \/ LoadRegistry
    \/ GenerateRegistryProof
    \/ GetIdentity
    \/ VerifyIdentityInRegistry
    \/ VerifyUserPackage
    \/ VerifyDocumentDisclosure

SpecRegistry == InitRegistry /\ [][NextRegistry]_vars

---------------------------------------------------------------------------
(* register_identity statement by statement (identity_registry.py 64-100), *)
(* as a caller that can be interrupted, or overtaken by another caller of  *)
(* the same IdentityRegistry object, between any two statements            *)

\* the number of salts drawn before the first registration
EntropyBase == Len(IdentityA.salt_cache) + Len(IdentityB.salt_cache)

\* pickle.load of the registry file: the exception it raises, "" when none
load_registry_error(dir) ==
    IF dir["registry"].kind = "partial" THEN "EOFError" ELSE ""

\* caller p enters register_identity(identity_id, identity, metadata)
RegCall(p) ==
    /\ calls[p].pc = "idle"
    /\ entropy + Cardinality({q \in Callers : calls[q].pc # "idle"})
         < EntropyBase + MaxRegistrations
    /\ \E registrant \in Registrants, identity \in Identities :
        calls' = [calls EXCEPT ![p] =
                    [pc          |-> "save_identity",
                     identity_id |-> registrant.identity_id,
                     identity    |-> identity,
                     metadata    |-> registrant.metadata]]
    /\ UNCHANGED <<mt, identityVars, registryVars, entropy, out>>

\* lines 71-72 into save_identity up to its open(filepath, 'wb')
RegOpenIdentity(p) ==
    /\ calls[p].pc = "save_identity"
    /\ LET saved == save_identity(calls[p].identity.salt_cache,
                                  calls[p].identity.merkle_tree)
       IN  IF ~saved.ok
           THEN /\ calls' = [calls EXCEPT ![p] = Idle]
                /\ out' = [op |-> "register_identity",
                           identity_id |-> calls[p].identity_id, res |-> saved]
                /\ UNCHANGED files
           ELSE /\ calls' = [calls EXCEPT ![p].pc = "dump_identity"]
                /\ files' = [files EXCEPT
                               ![identity_path(calls[p].identity_id)] = Partial]
                /\ UNCHANGED out
    /\ UNCHANGED <<mt, identityVars, identity_roots, registry_tree, registry_salts,
                   registry_data, entropy, clock, registered>>

\* pickle.dump(data, file) of save_identity
RegDumpIdentity(p) ==
    /\ calls[p].pc = "dump_identity"
    /\ files' = [files EXCEPT ![identity_path(calls[p].identity_id)] =
                    save_identity(calls[p].identity.salt_cache,
                                  calls[p].identity.merkle_tree).val]
    /\ calls' = [calls EXCEPT ![p].pc = "commit"]
    /\ UNCHANGED <<mt, identityVars, identity_roots, registry_tree, registry_salts,
                   registry_data, entropy, clock, registered, out>>

\* lines 75-80: the identity root, a fresh salt and the commitment
RegCommit(p) ==
    /\ calls[p].pc = "commit"
    /\ LET identity_root_hex == get_merkle_root(calls[p].identity.merkle_tree).val
           salt              == token_bytes(entropy + 1)
       IN  calls' = [calls EXCEPT ![p] =
                [pc                |-> "append",
                 identity_id       |-> calls[p].identity_id,
                 identity          |-> calls[p].identity,
                 metadata          |-> calls[p].metadata,
                 identity_root_hex |-> identity_root_hex,
                 salt              |-> salt,
                 commitment        |-> sha256(fromhex(identity_root_hex) \o salt)]]
    /\ entropy' = entropy + 1
    /\ UNCHANGED <<mt, identityVars, registryVars, out>>

\* line 83: self.identity_roots.append(commitment)
RegAppend(p) ==
    /\ calls[p].pc = "append"
    /\ identity_roots' = Append(identity_roots, calls[p].commitment)
    /\ calls' = [calls EXCEPT ![p].pc = "salts"]
    /\ UNCHANGED <<mt, identityVars, registry_tree, registry_salts, registry_data,
                   files, entropy, clock, registered, out>>

\* line 84: self.registry_salts[commitment.hex()] = salt
RegSalts(p) ==
    /\ calls[p].pc = "salts"
    /\ registry_salts' = setitem(registry_salts, hex(calls[p].commitment),
                                 calls[p].salt)
    /\ calls' = [calls EXCEPT ![p].pc = "data"]
    /\ UNCHANGED <<mt, identityVars, identity_roots, registry_tree, registry_data,
                   files, entropy, clock, registered, out>>

\* lines 85-92: self.registry_data[commitment.hex()] = {...}
RegData(p) ==
    /\ calls[p].pc = "data"
    /\ registry_data' = setitem(registry_data, hex(calls[p].commitment),
            [identity_root |-> calls[p].identity_root_hex,
             identity_id   |-> calls[p].identity_id,
             identity_path |-> identity_path(calls[p].identity_id),
             metadata      |-> IF calls[p].metadata = None THEN <<>>
                               ELSE calls[p].metadata,
             registered_at |-> clock,
             salt          |-> hex(calls[p].salt)])
    /\ clock' = clock + 1
    /\ calls' = [calls EXCEPT ![p].pc = "rebuild"]
    /\ UNCHANGED <<mt, identityVars, identity_roots, registry_tree, registry_salts,
                   files, entropy, registered, out>>

\* line 95: self.registry_tree = MerkleTree(self.identity_roots)
RegRebuild(p) ==
    /\ calls[p].pc = "rebuild"
    /\ registry_tree' = MerkleTree(identity_roots).val
    /\ calls' = [calls EXCEPT ![p].pc = "open_registry"]
    /\ UNCHANGED <<mt, identityVars, identity_roots, registry_salts, registry_data,
                   files, entropy, clock, registered, out>>

\* line 98 into _save_registry up to its open(registry_file, 'wb')
RegOpenRegistry(p) ==
    /\ calls[p].pc = "open_registry"
    /\ files' = [files EXCEPT !["registry"] = Partial]
    /\ calls' = [calls EXCEPT ![p].pc = "dump_registry"]
    /\ UNCHANGED <<mt, identityVars, identity_roots, registry_tree, registry_salts,
                   registry_data, entropy, clock, registered, out>>

\* pickle.dump(data, f) of _save_registry: the lists and dicts as they are now
RegDumpRegistry(p) ==
    /\ calls[p].pc = "dump_registry"
    /\ files' = _save_registry(files, registry)
    /\ calls' = [calls EXCEPT ![p].pc = "return"]
    /\ out' = [op            |-> "_save_registry",
               snapshot      |-> _save_registry(files, registry)["registry"],
               registry_root |-> get_registry_root(registry_tree)]
    /\ UNCHANGED <<mt, identityVars, identity_roots, registry_tree, registry_salts,
                   registry_data, entropy, clock, registered>>

\* line 100: return self.registry_data[commitment.hex()]
RegReturn(p) ==
    /\ calls[p].pc = "return"
    /\ LET entry == getitem(registry_data, hex(calls[p].commitment))
       IN  /\ registered' = Append(registered, entry)
           /\ out' = [op |-> "register_identity",
                      identity_id |-> calls[p].identity_id, res |-> Return(entry)]
    /\ calls' = [calls EXCEPT ![p] = Idle]
    /\ UNCHANGED <<mt, identityVars, identity_roots, registry_tree, registry_salts,
                   registry_data, files, entropy, clock>>

\* one statement of caller p
RegStep(p) ==
    \/ RegCall(p)
    \/ RegOpenIdentity(p)
    \/ RegDumpIdentity(p)
    \/ RegCommit(p)
    \/ RegAppend(p)
    \/ RegSalts(p)
    \/ RegData(p)
    \/ RegRebuild(p)
    \/ RegOpenRegistry(p)
    \/ RegDumpRegistry(p)
    \/ RegReturn(p)

\* the call of caller p is interrupted where it stands (the process is
\* killed, or an exception such as KeyboardInterrupt or OSError leaves the
\* call): an opened file is closed as far as it was written
Interrupt(p) ==
    /\ calls[p].pc # "idle"
    /\ calls' = [calls EXCEPT ![p] = Idle]
    /\ out' = [op |-> "interrupt", at |-> calls[p].pc]
    /\ UNCHANGED <<mt, identityVars, registryVars, entropy>>

\* registry = IdentityRegistry(storage_dir) after an interrupted call: the
\* constructor raises what pickle.load raises, else the loaded object
\* replaces the old one and the history is what it holds
Reopen ==
    /\ \A p \in Callers : calls[p].pc = "idle"
    /\ IF load_registry_error(files) # ""
       THEN /\ out' = [op |-> "load_registry",
                       res |-> Raise(load_registry_error(files)),
                       completed |-> registered]
            /\ UNCHANGED <<identity_roots, registry_tree, registry_salts,
                           registry_data, registered>>
       ELSE /\ identity_roots' = load_registry(files).identity_roots
            /\ registry_tree' = load_registry(files).registry_tree
            /\ registry_salts' = load_registry(files).registry_salts
            /\ registry_data' = load_registry(files).registry_data
            /\ registered' = [i \in 1..Len(load_registry(files).registry_data) |->
                                load_registry(files).registry_data[i].val]
            /\ out' = [op |-> "load_registry", res |-> Return(None),
                       completed |-> registered, loaded |-> load_registry(files)]
    /\ UNCHANGED <<mt, calls, identityVars, files, entropy, clock>>

\* SpecCrash: one caller, whose call can be interrupted at every statement
NextCrash == RegStep(1) \/ Interrupt(1) \/ Reopen

SpecCrash == InitRegistry /\ [][NextCrash]_vars

\* SpecThreads: two callers of one IdentityRegistry object, interleaved
NextThreads == \E p \in Callers : RegStep(p)

SpecThreads == InitRegistry /\ [][NextThreads]_vars

---------------------------------------------------------------------------
(* C1: whenever get_proof(leaf) has returned a proof for a leaf of the     *)
(* tree, folding that proof from the leaf (hash(sibling || current) for a  *)
(* 'left' step, hash(current || sibling) otherwise) gives get_root(); a    *)
(* single-leaf tree has the empty proof and its leaf as root.              *)
C1_ProofFoldsToRoot ==
    (out.op = "get_proof" /\ out.res.ok) =>
        /\ fold(out.leaf, out.res.val) = get_root(mt)
        /\ Len(mt.leaves) = 1 => (out.res.val = <<>> /\ get_root(mt) = out.leaf)

\* a proof was returned for the last leaf of a five-leaf tree (odd at two levels)
C1_Witness ==
    /\ out.op = "get_proof"
    /\ out.res.ok
    /\ Len(mt.leaves) = 5
    /\ out.leaf = mt.leaves[5]
    /\ index(mt.leaves, out.leaf) = 5

---------------------------------------------------------------------------
\* the i-th retained opening is an opening of `document` in the current tree:
\* its salt reproduces its commitment from the document filtered to its
\* attribute list, and that commitment is a leaf
committed_under(i, document) ==
    /\ salt_cache[i].key =
         hex(sha256(json_dumps(filtered(document, salt_cache[i].val.attributes))
                    \o salt_cache[i].val.salt))
    /\ fromhex(salt_cache[i].key) \in Range(merkle_tree.leaves)

(* C2: when the document was committed under attribute list S, the call    *)
(* generate_disclosure_proof(document, T) with T non-empty and a subset of *)
(* S succeeds, discloses exactly the keys T with the document's values,    *)
(* and verify_disclosure accepts the proof against the identity's root.    *)
C2_SubsetDisclosureSucceeds ==
    (out.op = "generate_disclosure_proof" /\ merkle_tree # None) =>
        \A i \in 1..Len(salt_cache) :
            ( /\ committed_under(i, out.document)
              /\ out.attributes_to_disclose # <<>>
              /\ Range(out.attributes_to_disclose)
                    \subseteq Range(salt_cache[i].val.attributes) )
            => /\ out.res.ok
               /\ DOMAIN out.res.val.disclosed_attributes
                    = Range(out.attributes_to_disclose)
               /\ \A k \in Range(out.attributes_to_disclose) :
                    out.res.val.disclosed_attributes[k] = out.document[k]
               /\ verify_disclosure(out.res.val, hex(get_root(merkle_tree)))
                    = Return(TRUE)

(* C3: a proof that differs from an accepted proof in its                  *)
(* disclosed_attributes only is rejected by verify_disclosure.             *)
C3_TamperedAttributesRejected ==
    ( /\ out.op = "verify_disclosure"
      /\ verify_disclosure(out.base, out.expected_root) = Return(TRUE)
      /\ out.proof.disclosed_attributes # out.base.disclosed_attributes
      /\ out.proof = [out.base EXCEPT
                        !.disclosed_attributes = out.proof.disclosed_attributes] )
    => out.res = Return(FALSE)

(* C4: verify_disclosure(proof, expected_root) returns true, for the root  *)
(* of the identity's tree, only if proof.commitment is a leaf of that tree *)
(* (not an inner node or the root with a shortened or empty path).         *)
C4_OnlyLeavesAccepted ==
    ( /\ out.op = "verify_disclosure"
      /\ out.res = Return(TRUE)
      /\ out.expected_root = hex(get_root(merkle_tree)) )
    => fromhex(out.proof.commitment) \in Range(merkle_tree.leaves)

---------------------------------------------------------------------------
(* C5: verify_identity_in_registry(identity_root, proof) returns true only *)
(* if hash(identity_root || proof.salt) is one of the outer tree's leaves. *)
C5_OnlyRegisteredOpeningsAccepted ==
    (out.op = "verify_identity_in_registry" /\ out.res = Return(TRUE)) =>
        sha256(fromhex(out.identity_root) \o fromhex(out.proof.salt))
            \in Range(identity_roots)

\* the reason verify_document_disclosure gives for an unregistered root
NotRegisteredReason == "Identity root not valid in registry"

(* C6: verify_document_disclosure, given the disclosure proof only,        *)
(* returns a result and does not raise: valid = true with the identity_id  *)
(* and the disclosed attributes when the proof's root is the root of a     *)
(* registered identity and the path verifies; valid = false with a reason  *)
(* otherwise, the reason telling 'not registered' from 'disclosure         *)
(* invalid'.                                                               *)
C6_DocumentDisclosureReturns ==
    out.op = "verify_document_disclosure" =>
        LET proof == out.disclosure_proof
            found == find_entry(registry_data, "identity_root", proof.merkle_root)
            path_ok == verify_disclosure(proof, proof.merkle_root) = Return(TRUE)
        IN  /\ out.res.ok
            /\ found = 0 =>
                /\ ~out.res.val.valid
                /\ out.res.val.reason = NotRegisteredReason
            /\ (found # 0 /\ path_ok) =>
                /\ out.res.val.valid
                /\ out.res.val.identity_id = registry_data[found].val.identity_id
                /\ out.res.val.disclosed_attributes = proof.disclosed_attributes
            /\ (found # 0 /\ ~path_ok) =>
                /\ ~out.res.val.valid
                /\ "reason" \in DOMAIN out.res.val
                /\ out.res.val.reason # NotRegisteredReason

C8_Step ==
    ( /\ Len(registry_data) = 1
      /\ Len(registry_data') = 2
      /\ registry_data'[1].val.identity_id # registry_data'[2].val.identity_id
      /\ registry_data'[1].val.identity_root # registry_data'[2].val.identity_root )
    => /\ get_registry_root(registry_tree') # get_registry_root(registry_tree)
       /\ \A i \in 1..2 :
            LET e == registry_data'[i].val
                p == generate_registry_proof(registry', e.identity_id)
            IN  /\ p.ok
                /\ verify_identity_in_registry(registry_tree', e.identity_root,
                                               p.val) = Return(TRUE)
                /\ verify_identity_in_registry(registry_tree, e.identity_root,
                                               p.val) = Return(FALSE)

(* C8: when two identities with distinct roots are registered into an      *)
(* empty registry, the registry root after the second registration differs *)
(* from the root after the first; the proof generate_registry_proof gives  *)
(* for each of the two is accepted in the two-identity state and rejected  *)
(* by the registry whose tree holds the first identity only.               *)
C8_TwoIdentities == [][C8_Step]_vars

C8_Witness ==
    /\ out.op = "register_identity"
    /\ Len(registry_data) = 2
    /\ registry_data[1].val.identity_id # registry_data[2].val.identity_id
    /\ registry_data[1].val.identity_root # registry_data[2].val.identity_root

(* C9: two registrations of the same identity root leave two entries with  *)
(* two distinct outer commitments (two distinct outer leaves), and the     *)
(* membership proof of each of the two is accepted by                      *)
(* verify_identity_in_registry for that identity root.                     *)
C9_SameRootTwice ==
    \A i, j \in 1..Len(registered) :
        (i < j /\ registered[i].identity_root = registered[j].identity_root) =>
            /\ Len(registry_data) = Len(registered)
            /\ Len(identity_roots) = Len(registered)
            /\ registry_data[i].val = registered[i]
            /\ registry_data[j].val = registered[j]
            /\ registry_data[i].key # registry_data[j].key
            /\ identity_roots[i] # identity_roots[j]
            /\ \A k \in {i, j} :
                LET p == proof_of_entry(registry_tree, registry_data[k].val)
                IN  /\ p.ok
                    /\ verify_identity_in_registry(registry_tree,
                            registered[k].identity_root, p.val) = Return(TRUE)

\* the same identity was registered twice, under one identity_id
C9_Witness ==
    /\ Len(registered) = 2
    /\ registered[1].identity_root = registered[2].identity_root
    /\ registered[1].identity_id = registered[2].identity_id
    /\ out.op = "register_identity"

(* C10: at all times the outer leaf list equals, in order, the keys of     *)
(* registry_data, with one leaf, one salt and one entry for each completed *)
(* registration, in registration order and as register_identity stored     *)
(* them; each key is hash(entry.identity_root || entry.salt); the outer    *)
(* tree is the tree built over the leaf list (none when it is empty).      *)
C10_LeavesAreEntryKeys ==
    /\ Len(identity_roots) = Len(registered)
    /\ Len(registry_salts) = Len(registered)
    /\ Len(registry_data) = Len(registered)
    /\ \A i \in 1..Len(registered) :
        /\ registry_data[i].val = registered[i]
        /\ registry_data[i].key = hex(identity_roots[i])
        /\ registry_salts[i].key = hex(identity_roots[i])
        /\ hex(registry_salts[i].val) = registered[i].salt
        /\ identity_roots[i] = sha256(fromhex(registered[i].identity_root)
                                      \o fromhex(registered[i].salt))
    /\ registry_tree = IF identity_roots = <<>>
                       THEN None
                       ELSE [leaves |-> identity_roots,
                             tree   |-> _build_tree(identity_roots)]

\* three registrations were made and the registry was then reloaded
C10_Witness ==
    /\ Len(registered) = 3
    /\ out.op = "load_registry"
    /\ Len(registry_data) = 3

(* C11: once a register_identity call has returned, a fresh                *)
(* IdentityRegistry opened on the same storage directory reports the same  *)
(* get_registry_root and the same list_identities (ids, roots, metadata,   *)
(* registration times, order) as the instance that made the registrations. *)
C11_FreshRegistryAgrees ==
    registered # <<>> =>
        /\ get_registry_root(load_registry(files).registry_tree)
             = get_registry_root(registry_tree)
        /\ list_identities(load_registry(files)) = list_identities(registry)

\* the third registration has just returned, and nothing was reloaded since
C11_Witness ==
    /\ out.op = "register_identity"
    /\ out.res.ok
    /\ Len(registered) = 3
    /\ Len(list_identities(load_registry(files))) = 3

(* C12: right after save_identity, load_identity of the saved file into a  *)
(* fresh ZKMerkleIdentity succeeds and gives the Merkle root, the leaf     *)
(* order and the opening map (salt cache) of the saved identity, and every *)
(* disclosure proof of the saved identity is accepted by verify_disclosure *)
(* against the loaded root; an identity loaded from a saved file has the   *)
(* salt cache, the leaves and the root written to that file.               *)
C12_SaveLoadRoundTrip ==
    /\ (out.op = "save_identity" /\ out.res.ok) =>
          LET loaded == load_identity(<<>>, None, files[IdentityFile])
          IN  /\ loaded.res = Return(None)
              /\ loaded.salt_cache = salt_cache
              /\ loaded.merkle_tree.leaves = merkle_tree.leaves
              /\ get_merkle_root(loaded.merkle_tree) = get_merkle_root(merkle_tree)
              /\ \A d \in Docs, a \in AttrLists :
                    LET proof == generate_disclosure_proof(salt_cache, merkle_tree, d, a)
                    IN  proof.ok =>
                          verify_disclosure(proof.val,
                              get_merkle_root(loaded.merkle_tree).val) = Return(TRUE)
    /\ (out.op = "load_identity" /\ files[IdentityFile].kind = "identity") =>
          LET saved == files[IdentityFile]
          IN  /\ out.res = Return(None)
              /\ salt_cache = saved.salt_cache
              /\ merkle_tree.leaves = saved.merkle_tree.leaves
              /\ get_root(merkle_tree)
                    = saved.merkle_tree.tree[Len(saved.merkle_tree.tree)][1]

\* an identity of two documents was saved and loaded, and the loaded one
\* still generates a disclosure proof
C12_Witness ==
    /\ out.op = "load_identity"
    /\ out.res.ok
    /\ Len(merkle_tree.leaves) = 2
    /\ \E d \in Docs, a \in AttrLists :
            generate_disclosure_proof(salt_cache, merkle_tree, d, a).ok

(* C13: when register_identity was interrupted, at whatever statement, a   *)
(* registry opened afterwards on the storage directory loads without error *)
(* and holds either the registrations completed before the call, or those  *)
(* and the interrupted one, with one leaf per entry and in entry order.    *)
C13_InterruptedRegistrationLoads ==
    out.op = "load_registry" =>
        /\ out.res.ok
        /\ Len(out.loaded.registry_data)
             \in {Len(out.completed), Len(out.completed) + 1}
        /\ \A i \in 1..Len(out.completed) :
              out.loaded.registry_data[i].val = out.completed[i]
        /\ keys(out.loaded.registry_data)
             = [i \in 1..Len(out.loaded.identity_roots) |->
                    hex(out.loaded.identity_roots[i])]

(* C14: every registry snapshot a caller writes, also when another caller  *)
(* of the same object runs between its statements, has a leaf list equal,  *)
(* in order, to the commitment keys of the snapshot's entries, and a load  *)
(* of it gives the root of the in-memory tree held when it was written.    *)
C14_SnapshotsAreConsistent ==
    out.op = "_save_registry" =>
        /\ keys(out.snapshot.registry_data)
             = [i \in 1..Len(out.snapshot.identity_roots) |->
                    hex(out.snapshot.identity_roots[i])]
        /\ get_registry_root(
              load_registry([files EXCEPT !["registry"] = out.snapshot]).registry_tree)
             = out.registry_root

(* C15: verify_disclosure, given a malformed proof (a commitment or a path *)
(* element that is no hex or has odd length, a path index list shorter     *)
(* than the path, a missing field), and verify_identity_in_registry, given *)
(* a malformed submission, return false and do not raise.                  *)
C15_MalformedProofsGiveFalse ==
    /\ (out.op = "verify_disclosure" /\ out.proof \in Malformed(out.base))
          => out.res = Return(FALSE)
    /\ ( /\ out.op = "verify_identity_in_registry"
         /\ \E p \in EntryProofs :
              [identity_root |-> out.identity_root, proof |-> out.proof]
                 \in MalformedSubmissions(p) )
          => out.res = Return(FALSE)

\* proof is well formed: every field is there, the commitment and the path
\* elements are hex, and there is an index for every path element
well_formed(proof) ==
    /\ {"merkle_root", "commitment", "path_elements", "path_indices"}
          \subseteq DOMAIN proof
    /\ IsHex(proof.commitment)
    /\ Len(proof.path_indices) = Len(proof.path_elements)
    /\ \A i \in 1..Len(proof.path_elements) : IsHex(proof.path_elements[i])

\* proof is base with another string as commitment, or as one path element
one_part_changed(base, proof) ==
    \/ /\ proof.commitment # base.commitment
       /\ proof = [base EXCEPT !.commitment = proof.commitment]
    \/ \E i \in 1..Len(base.path_elements) :
       /\ Len(proof.path_elements) = Len(base.path_elements)
       /\ proof.path_elements[i] # base.path_elements[i]
       /\ proof = [base EXCEPT !.path_elements[i] = proof.path_elements[i]]

(* C16: a well-formed proof that differs from a proof verify_disclosure    *)
(* accepts in its commitment only, or in one path element only, is         *)
(* rejected: verify_disclosure returns false.                              *)
C16_OneChangedPartRejected ==
    ( /\ out.op = "verify_disclosure"
      /\ verify_disclosure(out.base, out.expected_root) = Return(TRUE)
      /\ well_formed(out.proof)
      /\ one_part_changed(out.base, out.proof) )
    => out.res = Return(FALSE)

(* C17: verify_disclosure(proof, expected_root) returns false whenever     *)
(* proof.merkle_root differs from expected_root; and a generated proof is  *)
(* rejected against every root other than its identity's root, as          *)
(* generated and also with its merkle_root field rewritten to that root.   *)
C17_OtherRootRejected ==
    (out.op = "verify_disclosure" /\ "merkle_root" \in DOMAIN out.proof) =>
        /\ out.proof.merkle_root # out.expected_root => out.res = Return(FALSE)
        /\ ( /\ fromhex(out.expected_root) # fromhex(out.base.merkle_root)
             /\ out.proof \in {out.base,
                               [out.base EXCEPT !.merkle_root = out.expected_root]} )
           => out.res = Return(FALSE)

\* a generated proof, its merkle_root rewritten to the root of no identity,
\* was verified against that root
C17_Witness ==
    /\ out.op = "verify_disclosure"
    /\ out.expected_root = ForeignRoot
    /\ out.proof = [out.base EXCEPT !.merkle_root = ForeignRoot]
    /\ verify_disclosure(out.base, out.base.merkle_root) = Return(TRUE)
    /\ out.res = Return(FALSE)

(* C18: the result of verify_identity_in_registry does not depend on the   *)
(* registry_root a proof embeds: the same submission with any other        *)
(* embedded root, or with none, gets the same result, the fold being       *)
(* compared with the root of the current outer tree; and while no identity *)
(* is registered (no outer tree) every submission is rejected.             *)
C18_LiveRootDecides ==
    out.op = "verify_identity_in_registry" =>
        /\ \A r \in {<<>>, ForeignRoot, get_registry_root(registry_tree)} :
              verify_identity_in_registry(registry_tree, out.identity_root,
                    [f \in DOMAIN out.proof \cup {"registry_root"} |->
                        IF f = "registry_root" THEN r ELSE out.proof[f]])
                 = out.res
        /\ verify_identity_in_registry(registry_tree, out.identity_root,
                                       without(out.proof, "registry_root"))
             = out.res
        /\ registry_tree = None => out.res = Return(FALSE)
        /\ ( /\ out.res = Return(TRUE)
             /\ {"path_elements", "path_positions"} \subseteq DOMAIN out.proof
             /\ Len(out.proof.path_elements) = Len(out.proof.path_positions) )
           => fold(sha256(fromhex(out.identity_root) \o fromhex(out.proof.salt)),
                   [i \in 1..Len(out.proof.path_elements) |->
                       [data     |-> fromhex(out.proof.path_elements[i]),
                        position |-> out.proof.path_positions[i]]])
                = fromhex(get_registry_root(registry_tree))

\* an entry's proof that embeds the root of no registry was accepted in a
\* registry of two entries
C18_Witness ==
    /\ out.op = "verify_identity_in_registry"
    /\ Len(identity_roots) = 2
    /\ "registry_root" \in DOMAIN out.proof
    /\ out.proof.registry_root = ForeignRoot
    /\ out.res = Return(TRUE)

(* C19: in every built tree the first level is the leaf list; node j of    *)
(* the level above level k is hash(level_k[2j] || level_k[2j+1]) (0-based) *)
(* or, when 2j is the last index of an odd-length level,                   *)
(* hash(level_k[2j] || level_k[2j]); each level has ceil(n/2) nodes for    *)
(* the n nodes below it; the last level has exactly one node; and for      *)
(* three leaves A, B, C the root is hash(hash(A || B) || hash(C || C)).    *)
C19_LevelsArePairwiseHashes ==
    mt # None =>
        /\ mt.tree[1] = mt.leaves
        /\ Len(mt.tree[Len(mt.tree)]) = 1
        /\ \A k \in 1..(Len(mt.tree) - 1) :
            /\ Len(mt.tree[k]) > 1
            /\ 2 * Len(mt.tree[k + 1]) \in {Len(mt.tree[k]), Len(mt.tree[k]) + 1}
            /\ \A j \in 0..(Len(mt.tree[k + 1]) - 1) :
                mt.tree[k + 1][j + 1] =
                    IF 2 * j = Len(mt.tree[k]) - 1
                    THEN sha256(mt.tree[k][2 * j + 1] \o mt.tree[k][2 * j + 1])
                    ELSE sha256(mt.tree[k][2 * j + 1] \o mt.tree[k][2 * j + 2])
        /\ Len(mt.leaves) = 3 =>
              get_root(mt) = sha256(sha256(mt.leaves[1] \o mt.leaves[2])
                                    \o sha256(mt.leaves[3] \o mt.leaves[3]))

\* the tree over the three leaves A, B, C was built
C19_Witness ==
    /\ mt # None
    /\ mt.leaves = <<<<1>>, <<2>>, <<3>>>>
    /\ Len(mt.tree) = 3

(* C20: building a tree again from the leaf list of a built tree gives the *)
(* same root, and the tree over the same leaves with any single leaf       *)
(* replaced by a different value has a different root.                     *)
C20_RootBindsEveryLeaf ==
    mt # None =>
        /\ get_root(MerkleTree(mt.leaves).val) = get_root(mt)
        /\ \A i \in 1..Len(mt.leaves) :
            \A v \in LeafVals \ {mt.leaves[i]} :
                get_root(MerkleTree([mt.leaves EXCEPT ![i] = v]).val) # get_root(mt)

\* a five-leaf tree with a repeated leaf value and an inner node's value as
\* a leaf was built
C20_Witness ==
    /\ mt # None
    /\ Len(mt.leaves) = 5
    /\ mt.leaves[1] = mt.leaves[5]
    /\ mt.leaves[3] = _hash_pair(<<1>>, <<2>>)

\* the retained openings whose salt reproduces their own commitment from
\* `document` filtered to `attributes`
matching_openings(document, attributes) ==
    {i \in 1..Len(salt_cache) :
        hex(sha256(json_dumps(filtered(document, attributes))
                   \o salt_cache[i].val.salt)) = salt_cache[i].key}

(* C21: on an identity that has a tree, generate_disclosure_proof fails    *)
(* with the document-not-found error exactly when no retained opening's    *)
(* salt reproduces that opening's commitment from the filtered document;   *)
(* when some opening does, it succeeds with the first such opening.        *)
C21_FailsOnlyWithoutOpening ==
    (out.op = "generate_disclosure_proof" /\ merkle_tree # None) =>
        LET matching == matching_openings(out.document, out.attributes_to_disclose)
        IN  /\ matching = {} <=>
                 out.res = Raise("ValueError: Document not found in the identity")
            /\ matching # {} =>
                 /\ out.res.ok
                 /\ out.res.val.commitment =
                      salt_cache[CHOOSE i \in matching :
                                    \A j \in matching : i <= j].key

(* C26: whenever the identity has a tree, the commitment keys of its       *)
(* opening map (salt_cache) are exactly the leaves of that tree.           *)
C26_OpeningsAreLeaves ==
    merkle_tree # None =>
        {fromhex(salt_cache[i].key) : i \in 1..Len(salt_cache)}
            = Range(merkle_tree.leaves)

\* a call of generate_registry_proof or get_identity for an identity_id that
\* no entry has fails with the not-found error and changes nothing
C22_Step ==
    ( /\ out'.op \in {"generate_registry_proof", "get_identity"}
      /\ \A i \in 1..Len(registry_data) :
            registry_data[i].val.identity_id # out'.identity_id )
    => /\ out'.res = Raise("ValueError: Identity not found in registry")
       /\ UNCHANGED <<identity_roots, registry_tree, registry_salts,
                      registry_data, files>>

(* C22: generate_registry_proof and get_identity fail with the identity-   *)
(* not-found error, leaving entries, salts, leaves, tree and files as they *)
(* were, whenever no entry has the given identity_id, also on an empty     *)
(* registry that has no outer tree.                                        *)
C22_UnknownIdentityNotFound == [][C22_Step]_vars

\* generate_registry_proof was called on a registry with no entry and no tree
C22_Witness ==
    /\ out.op = "generate_registry_proof"
    /\ registry_data = <<>>
    /\ registry_tree = None
    /\ out.res = Raise("ValueError: Identity not found in registry")

(* C27: for every registry entry, the identity snapshot stored at the      *)
(* entry's identity_path loads to an identity whose Merkle root is the     *)
(* entry's identity_root.                                                  *)
C27_SnapshotsMatchEntries ==
    \A i \in 1..Len(registry_data) :
        LET e      == registry_data[i].val
            loaded == load_identity(<<>>, None, files[e.identity_path])
        IN  /\ loaded.res.ok
            /\ get_merkle_root(loaded.merkle_tree) = Return(e.identity_root)

(* C28: for every registry entry e, generate_registry_proof(e.identity_id) *)
(* returns a proof whose identity_root and salt are those of e.            *)
C28_EveryEntryGetsItsProof ==
    \A i \in 1..Len(registry_data) :
        LET e == registry_data[i].val
            p == generate_registry_proof(registry, e.identity_id)
        IN  registry_tree # None =>
              /\ p.ok
              /\ p.val.identity_root = e.identity_root
              /\ p.val.salt = e.salt

(* C29: whenever verify_user_package returns valid = true, the identity_id *)
(* and metadata it returns are those of the entry whose outer commitment   *)
(* is hash(package.merkle_root || proof.salt).                             *)
C29_ReturnedEntryIsOpenedEntry ==
    (out.op = "verify_user_package" /\ out.res.ok /\ out.res.val.valid) =>
        \E i \in 1..Len(registry_data) :
            /\ registry_data[i].key =
                 hex(sha256(fromhex(out.user_package.merkle_root)
                            \o fromhex(out.user_package.proof.salt)))
            /\ registry_data[i].val.identity_id = out.res.val.identity_id
            /\ registry_data[i].val.metadata = out.res.val.metadata

(* C30: a membership proof that generate_registry_proof returned before a  *)
(* further identity was registered is rejected by                          *)
(* verify_identity_in_registry afterwards, and the registry root after a   *)
(* registration differs from every earlier root.                           *)
C30_EarlierProofsRejected ==
    /\ ( /\ out.op = "verify_identity_in_registry"
         /\ out.proof \in IssuedEarlier
         /\ out.identity_root = out.proof.identity_root )
       => out.res = Return(FALSE)
    /\ \A k \in 1..(Len(identity_roots) - 1) :
         (registry_tree # None /\ Len(registry_tree.leaves) = Len(identity_roots))
         => get_root(MerkleTree(SubSeq(identity_roots, 1, k)).val)
               # get_root(registry_tree)

\* the proof issued to the first entry when it was the only one was
\* submitted after two more registrations
C30_Witness ==
    /\ out.op = "verify_identity_in_registry"
    /\ Len(identity_roots) = 3
    /\ out.proof \in IssuedEarlier
    /\ out.proof.path_elements = <<>>
    /\ out.identity_root = out.proof.identity_root
    /\ out.res = Return(FALSE)

\* the occurrences (0-based) of leaf among the leaves of t
occurrences(t, leaf) == {i \in 0..(Len(t.leaves) - 1) : t.leaves[i + 1] = leaf}

\* the sibling path of the leaf at 0-based position i0, level by level
path_of(t, i0) ==
    [l \in 1..(Len(t.tree) - 1) |->
        LET n == i0 \div (2 ^ (l - 1))
            s == IF n % 2 = 1 THEN n - 1 ELSE n + 1
        IN  [data     |-> IF s + 1 > Len(t.tree[l]) THEN t.tree[l][n + 1]
                          ELSE t.tree[l][s + 1],
             position |-> IF n % 2 = 1 THEN "left" ELSE "right"]]

C25_Step ==
    out'.op = "get_proof" =>
        LET occ == occurrences(mt, out'.leaf)
        IN  /\ mt' = mt
            /\ occ = {} => out'.res = Raise("ValueError")
            /\ occ # {} =>
                 LET first == CHOOSE i \in occ : \A j \in occ : i <= j
                 IN  /\ out'.res = Return(path_of(mt, first))
                     /\ fold(out'.leaf, out'.res.val) = get_root(mt)

(* C25: get_proof(leaf) raises the leaf-not-found ValueError and leaves    *)
(* the tree unchanged when no leaf equals the value; when the value occurs *)
(* at several indices it returns the proof derived from the lowest index,  *)
(* and that proof folds to the root.                                       *)
C25_FirstOccurrenceOrNotFound == [][C25_Step]_vars

\* a proof was returned for a value that sits at the two last places of a
\* three-leaf tree, where the two occurrences have different paths
C25_Witness ==
    /\ out.op = "get_proof"
    /\ out.res.ok
    /\ Len(mt.leaves) = 3
    /\ occurrences(mt, out.leaf) = {1, 2}
    /\ path_of(mt, 1) # path_of(mt, 2)

(* C23: load_identity raises the integrity error whenever the persisted    *)
(* level list differs in any way from the tree rebuilt from the persisted  *)
(* leaves: another node value, another number of levels, or another number *)
(* of nodes in some level.                                                 *)
C23_AnyDifferenceIsRejected ==
    ( /\ out.op = "load_identity"
      /\ out.content.kind = "identity"
      /\ out.content.merkle_tree.leaves # <<>>
      /\ out.content.merkle_tree.tree # _build_tree(out.content.merkle_tree.leaves) )
    => out.res = Raise("AssertionError")

(* C24: when load_identity fails (missing file or integrity mismatch), the *)
(* object's opening map and Merkle tree are what they were before the call.*)
C24_FailedLoadKeepsState ==
    (out.op = "load_identity" /\ ~out.res.ok) =>
        /\ salt_cache = out.before.salt_cache
        /\ merkle_tree = out.before.merkle_tree

====
